---- MODULE Spec2Model ----
(***************************************************************************)
(* Model of the test explorer glue of vscode-meson (src/src/tests.ts with  *)
(* exec from src/src/utils.ts): the test tree reconciler (rebuildTests,    *)
(* rebuildTestsForFolder), the run handler (testRunHandler) and the debug  *)
(* handler (testDebugHandler, prepareTestInFolder).                        *)
(*                                                                         *)
(* Every async function is cut at its await points: one action runs the    *)
(* synchronous code from one resumption to the next suspension, as the     *)
(* JavaScript event loop does.  What an awaited call yields (an            *)
(* introspection result, an exit code, a rejection) is drawn with \E.      *)
(***************************************************************************)
EXTENDS Integers, Sequences, FiniteSets, TLC

\* ------------------------------------------------------------------ bounds
NumFolders == 3
NumTests == 2
MaxPasses == 2
MaxWorkspaceChanges == 1

Folders == 1..NumFolders
TestNames == 1..NumTests
Passes == 1..MaxPasses
Platforms == {"posix", "win32"}

VARIABLES
  platform,             \* the host platform, which decides what Uri.fsPath yields
  workspaceFolders,     \* vscode.workspace.workspaceFolders, a sequence of folders
  workspaceChanges,     \* how often the workspace folders changed
  heap,                 \* the live TestItem objects; heap[Root] is the controller
  pc,                   \* per pass: where the rebuildTests invocation is suspended
  single,               \* per pass: it took the single-folder branch
  wsLoop,               \* per pass: the array the for-of loop of line 37 iterates
  idx,                  \* per pass: position in wsLoop
  item,                 \* per pass: the object whose collection is being reconciled
  log,                  \* per pass: what the pass saw and did so far
  event,                \* what the last step did: its calls on collections and windows
  run,                  \* the invocation of testRunHandler: its queue and its TestRun
  meson,                \* what the build directories and the settings hold (debug runs)
  dbg,                  \* the invocation of testDebugHandler
  derive,               \* a test descriptor and the launch configuration derived from it
  tsk,                  \* the invocation of getMesonTasks and a lookup with getTask
  disk                  \* the tests the build directories hold, and who read them when

rebuildVars == <<platform, workspaceFolders, workspaceChanges, heap, pc, single, wsLoop,
                 idx, item, log, event>>

\* ------------------------------------------------------- ids and collections
\* An object is named by the pass that created it, the folder and the test it was
\* created for (a pass creates at most one item per folder and per test of it).
Root == <<0, 0, 0>>
Undefined == <<0, 0, -1>>
NoUri == 0
NewItem(p, f, t) == <<p, f, t>>

\* wsFolder.uri.path
uriPath(f) == <<"path", f>>

\* wsFolder.uri.fsPath: the path itself on POSIX; on Windows the drive letter is
\* lowered, the leading slash dropped and the separators are backslashes, so it is
\* never the same string as uri.path
uriFsPath(f) == IF platform = "win32" THEN <<"fsPath", f>> ELSE <<"path", f>>

\* the id of a leaf is the test's name (testDescr.name)
TestId(t) == <<"test", t>>

Range(s) == {s[i] : i \in DOMAIN s}

RECURSIVE SortedSeq(_)
SortedSeq(S) ==
  IF S = {} THEN <<>>
  ELSE LET m == CHOOSE x \in S : \A y \in S : x <= y
       IN <<m>> \o SortedSeq(S \ {m})

\* TestItemCollection.get
Get(coll, id) == IF id \in DOMAIN coll THEN coll[id] ELSE Undefined

\* TestItemCollection.delete
Delete(coll, id) == [k \in DOMAIN coll \ {id} |-> coll[k]]

\* TestItemCollection.add: an item with the same id is replaced
Add(coll, id, inst) == [k \in DOMAIN coll \cup {id} |-> IF k = id THEN inst ELSE coll[k]]

\* controller.createTestItem(id, label, uri): a new object without children
createTestItem(h, inst, id, uri) ==
  [k \in DOMAIN h \cup {inst} |->
     IF k = inst THEN [id |-> id, uri |-> uri, children |-> <<>>] ELSE h[k]]

\* the ids of the items of a collection (the collection of object inst)
Ids(h, inst) == DOMAIN h[inst].children

Kids(h, S) == UNION {Range(h[i].children) : i \in S \cap DOMAIN h}

\* objects nothing refers to any more are gone (held: the references of suspended code)
collect(h, held) ==
  LET r0 == {Root} \cup (held \cap DOMAIN h)
      r1 == r0 \cup Kids(h, r0)
      r2 == r1 \cup Kids(h, r1)
  IN [k \in r2 |-> h[k]]

\* ------------------------------------------------------ rebuildTestsForFolder
\* a reconciliation that deletes nothing (the properties must tell it apart)
deleteNothing(coll, tests) == coll

\* lines 21-25: delete every item whose id is no test's name
deleteStale(coll, tests) ==
  [k \in {i \in DOMAIN coll : \E j \in DOMAIN tests : i = TestId(tests[j])} |-> coll[k]]

\* lines 27-30: create and add an item for every test of the list
RECURSIVE addTestItems(_, _, _, _, _)
addTestItems(h, c, tests, folder, p) ==
  IF tests = <<>> THEN h
  ELSE LET id == TestId(Head(tests))
           inst == NewItem(p, folder, Head(tests))
           h1 == createTestItem(h, inst, id, folder)
           h2 == [h1 EXCEPT ![c].children = Add(@, id, inst)]
       IN addTestItems(h2, c, Tail(tests), folder, p)

\* lines 21-30, the code after `await getMesonTests` resolved with tests
rebuildTestsForFolder(h, c, tests, folder, p) ==
  addTestItems([h EXCEPT ![c].children = deleteStale(@, tests)], c, tests, folder, p)

\* the collection.delete calls of lines 21-25
deleteCalls(coll, tests) ==
  {i \in DOMAIN coll : ~ \E j \in DOMAIN tests : i = TestId(tests[j])}

\* the collection.add calls of lines 27-30
addCalls(tests) == {TestId(tests[j]) : j \in DOMAIN tests}

\* --------------------------------------------------------------- rebuildTests
\* lines 37-45: the iterations i..stop-1 of the loop, those whose build directory
\* existsSync does not find
RECURSIVE skipMissing(_, _, _, _)
skipMissing(h, ws, i, stop) ==
  IF i >= stop THEN h
  ELSE LET found == Get(h[Root].children, uriFsPath(ws[i]))
           h1 == IF found # Undefined
                 THEN [h EXCEPT ![Root].children = Delete(@, h[found].id)]
                 ELSE h
       IN skipMissing(h1, ws, i + 1, stop)

\* lines 62-71: drop top-level items without children or without workspace folder
prune(h, ws) ==
  LET top == h[Root].children
      keep == {i \in DOMAIN top :
                 /\ Cardinality(DOMAIN h[top[i]].children) # 0
                 /\ \E j \in DOMAIN ws : uriPath(ws[j]) = h[top[i]].id}
  IN [h EXCEPT ![Root].children = [k \in keep |-> top[k]]]

\* the top-level nodes with their children
TopSnapshot(h) ==
  [k \in DOMAIN h[Root].children |->
     [inst |-> h[Root].children[k], children |-> h[h[Root].children[k]].children]]

NoLog == [startTop |-> <<>>, failed |-> {}, missing |-> {}, fetched |-> {}]

NoEvent == [op |-> "none", pass |-> 0, folder |-> 0, single |-> FALSE,
            reconciled |-> <<>>, ended |-> FALSE, rejected |-> FALSE,
            shown |-> {}, unhandled |-> FALSE, log |-> NoLog]

\* the record of one reconciliation: the collection, the list, the calls issued
Reconciled(h, c, tests) ==
  <<[coll |-> c, tests |-> Range(tests), before |-> h[c].children,
     adds |-> addCalls(tests), removes |-> deleteCalls(h[c].children, tests)]>>

\* the references suspended code holds: the passes (pass p holding `it`) and the
\* queue of the run handler
Held(p, it) ==
  {IF q = p THEN it ELSE item[q] : q \in Passes} \cup Range(run.queue) \cup Range(dbg.queue)

\* the collections the step reported in ev worked on
Touched(ev) == {ev.reconciled[j].coll : j \in DOMAIN ev.reconciled}

\* the invocation of pass p is over: its locals are gone
finish(p, ev, lg) ==
  /\ pc' = [pc EXCEPT ![p] = "done"]
  /\ single' = [single EXCEPT ![p] = FALSE]
  /\ wsLoop' = [wsLoop EXCEPT ![p] = <<>>]
  /\ idx' = [idx EXCEPT ![p] = 1]
  /\ item' = [item EXCEPT ![p] = Undefined]
  /\ log' = [log EXCEPT ![p] = NoLog]
  /\ event' = [ev EXCEPT !.log = lg]

\* the loop of lines 37-60 resumed at position i with tree h, up to its next
\* await (getMesonProjectInfo, line 48, for the first folder whose build directory
\* exists, at position stop) or through the pruning of lines 62-71
continueLoop(p, h, ws, i, stop, ev, lg) ==
  LET h1 == skipMissing(h, ws, i, stop)
      lg1 == [lg EXCEPT !.missing = @ \cup {ws[j] : j \in i..(stop - 1)}]
  IN IF stop > Len(ws)
     THEN /\ heap' = collect(prune(h1, workspaceFolders), Held(p, Undefined) \cup Touched(ev))
          /\ finish(p, [ev EXCEPT !.ended = TRUE], lg1)
     ELSE /\ heap' = collect(h1, Held(p, Undefined) \cup Touched(ev))
          /\ pc' = [pc EXCEPT ![p] = "awaitInfo"]
          /\ single' = [single EXCEPT ![p] = FALSE]
          /\ wsLoop' = [wsLoop EXCEPT ![p] = ws]
          /\ idx' = [idx EXCEPT ![p] = stop]
          /\ item' = [item EXCEPT ![p] = Undefined]
          /\ log' = [log EXCEPT ![p] = lg1]
          /\ event' = ev

\* lines 33-45: rebuildTests is called; it runs to its first await
callRebuildTests(p) ==
  /\ pc[p] = "idle"
  /\ LET ev == [NoEvent EXCEPT !.op = "rebuildTests", !.pass = p]
         lg == [NoLog EXCEPT !.startTop = TopSnapshot(heap)]
     IN IF Len(workspaceFolders) = 1
        THEN \* line 35: rebuildTestsForFolder is started and not awaited; it
             \* suspends at line 19 and rebuildTests returns
             /\ single' = [single EXCEPT ![p] = TRUE]
             /\ wsLoop' = [wsLoop EXCEPT ![p] = workspaceFolders]
             /\ item' = [item EXCEPT ![p] = Root]
             /\ pc' = [pc EXCEPT ![p] = "awaitTests"]
             /\ log' = [log EXCEPT ![p] = lg]
             /\ event' = [ev EXCEPT !.single = TRUE]
             /\ UNCHANGED <<heap, idx>>
        ELSE \E stop \in 1..(Len(workspaceFolders) + 1) :
               continueLoop(p, heap, workspaceFolders, 1, stop, ev, lg)
  /\ UNCHANGED <<platform, workspaceFolders, workspaceChanges, run, meson, dbg, derive, tsk>>

\* a call of rebuildTests once the calls before it are over
rebuildTests(p) ==
  /\ \A q \in Passes : q < p => pc[q] = "done"
  /\ callRebuildTests(p)
  /\ UNCHANGED disk

\* lines 48-60: `await getMesonProjectInfo` settles for the folder at idx
infoSettled(p) ==
  /\ pc[p] = "awaitInfo"
  /\ LET f == wsLoop[p][idx[p]]
         ev == [NoEvent EXCEPT !.op = "projectInfo", !.pass = p, !.folder = f]
     IN \/ \* resolved: lines 50-56, up to the await of line 19
           LET found == Get(heap[Root].children, uriFsPath(f))
               inst == NewItem(p, f, 0)
               h1 == createTestItem(heap, inst, uriPath(f), NoUri)
               it == IF found = Undefined THEN inst ELSE found
           IN /\ heap' = collect(IF found = Undefined
                                 THEN [h1 EXCEPT ![Root].children = Add(@, uriPath(f), inst)]
                                 ELSE heap, Held(p, it))
              /\ item' = [item EXCEPT ![p] = it]
              /\ pc' = [pc EXCEPT ![p] = "awaitTests"]
              /\ event' = ev
              /\ UNCHANGED <<single, wsLoop, idx, log>>
        \/ \* rejected: the catch of lines 57-59, then the loop goes on
           \E stop \in (idx[p] + 1)..(Len(wsLoop[p]) + 1) :
             continueLoop(p, heap, wsLoop[p], idx[p] + 1, stop,
                          [ev EXCEPT !.rejected = TRUE, !.shown = {f}],
                          [log[p] EXCEPT !.failed = @ \cup {f}])
  /\ UNCHANGED <<platform, workspaceFolders, workspaceChanges, run, meson, dbg, derive, tsk>>

projectInfoSettled(p) == infoSettled(p) /\ UNCHANGED disk

\* lines 19-31: `await getMesonTests` settles
testsSettled(p, Ts) ==
  /\ pc[p] = "awaitTests"
  /\ LET f == IF single[p] THEN wsLoop[p][1] ELSE wsLoop[p][idx[p]]
         ev == [NoEvent EXCEPT !.op = "mesonTests", !.pass = p, !.folder = f,
                               !.single = single[p]]
     IN \/ \* resolved with a test list: lines 21-30
           \E T \in Ts :
             LET tests == SortedSeq(T)
                 h1 == rebuildTestsForFolder(heap, item[p], tests, f, p)
                 ev1 == [ev EXCEPT !.reconciled = Reconciled(heap, item[p], tests)]
                 lg == [log[p] EXCEPT !.fetched = @ \cup {<<f, T>>}]
             IN IF single[p]
                THEN /\ heap' = collect(h1, Held(p, Undefined) \cup Touched(ev1))
                     /\ finish(p, ev1, lg)
                ELSE \E stop \in (idx[p] + 1)..(Len(wsLoop[p]) + 1) :
                       continueLoop(p, h1, wsLoop[p], idx[p] + 1, stop, ev1, lg)
        \/ \* rejected
           LET lg == [log[p] EXCEPT !.failed = @ \cup {f}]
           IN IF single[p]
              THEN \* line 35: nothing awaits or catches the promise
                   /\ heap' = collect(heap, Held(p, Undefined))
                   /\ finish(p, [ev EXCEPT !.rejected = TRUE, !.unhandled = TRUE], lg)
              ELSE \* the catch of lines 57-59, then the loop goes on
                   \E stop \in (idx[p] + 1)..(Len(wsLoop[p]) + 1) :
                     continueLoop(p, heap, wsLoop[p], idx[p] + 1, stop,
                                  [ev EXCEPT !.rejected = TRUE, !.shown = {f}], lg)
  /\ UNCHANGED <<platform, workspaceFolders, workspaceChanges, run, meson, dbg, derive, tsk>>

\* getMesonTests resolves with any list of tests
mesonTestsSettled(p) == testsSettled(p, SUBSET TestNames) /\ UNCHANGED disk

\* the user opens or closes workspace folders
changeWorkspaceFolders ==
  /\ workspaceChanges < MaxWorkspaceChanges
  /\ workspaceChanges' = workspaceChanges + 1
  /\ \E S \in SUBSET Folders :
       /\ S # {}
       /\ SortedSeq(S) # workspaceFolders
       /\ workspaceFolders' = SortedSeq(S)
  /\ event' = [NoEvent EXCEPT !.op = "workspace"]
  /\ UNCHANGED <<platform, heap, pc, single, wsLoop, idx, item, log, run, meson, dbg, derive, tsk, disk>>

\* ------------------------------------------------- overlapping invocations
\* Nothing in tests.ts keeps a second rebuildTests from being called while an
\* earlier one is suspended.  getMesonTests reads what the build directory holds
\* when it is called; the promise settles later, in any order with the others.
MaxDiskChanges == 1

NotRead == [at |-> 0, tests |-> {}]

NoDisk == [tests |-> <<>>, changes |-> 0, reads |-> 0, seen |-> <<>>, results |-> <<>>]

\* line 19: getMesonTests is called by pass p for folder f
readTests(p, f) ==
  [disk EXCEPT !.reads = @ + 1,
               !.seen[p] = [at |-> disk.reads + 1, tests |-> disk.tests[f]]]

\* line 19 resolved for pass p: the most recent introspection result of folder f
\* is the one that was read last
resultOf(p, f) ==
  IF disk.seen[p].at > disk.results[f].at
  THEN [disk EXCEPT !.results[f] = disk.seen[p]]
  ELSE disk

\* lines 33-45: rebuildTests is called, whatever earlier calls are doing
rebuildTestsOverlapping(p) ==
  /\ \A q \in Passes : q < p => pc[q] # "idle"
  /\ callRebuildTests(p)
  /\ disk' = IF pc'[p] = "awaitTests" THEN readTests(p, workspaceFolders[1]) ELSE disk

\* lines 48-60 and 19: `await getMesonProjectInfo` settles, getMesonTests is called
projectInfoSettledOverlapping(p) ==
  /\ infoSettled(p)
  /\ disk' = IF pc'[p] = "awaitTests" THEN readTests(p, wsLoop[p][idx[p]]) ELSE disk

\* lines 19-31: `await getMesonTests` settles with what was read, or rejects
mesonTestsSettledOverlapping(p) ==
  /\ testsSettled(p, {disk.seen[p].tests})
  /\ disk' = IF event'.rejected THEN disk ELSE resultOf(p, event'.folder)

\* meson.build is edited and the build directory regenerated
buildDirectoryChanges ==
  /\ disk.changes < MaxDiskChanges
  /\ \E f \in DOMAIN disk.tests, T \in SUBSET TestNames :
       /\ T # disk.tests[f]
       /\ disk' = [disk EXCEPT !.changes = @ + 1, !.tests[f] = T]
  /\ UNCHANGED <<rebuildVars, run, meson, dbg, derive, tsk>>

\* ------------------------------------------------------------ testRunHandler
\* what cp.execFile reports to the callback of exec (utils.ts line 17): no error
\* when the process exited with 0, else an error whose code is the exit code, or no
\* exit code at all when the process could not be spawned or was killed
NoExitCode == -1
BuildFailed == 125
ExecErrorCodes == {1, BuildFailed, NoExitCode}
ExecResults == {[error |-> FALSE, code |-> 0]} \cup
               {[error |-> TRUE, code |-> c] : c \in ExecErrorCodes}

\* the order in which a collection is walked (the properties do not depend on it)
Rank(id) == (IF id[1] = "path" THEN 0 ELSE NumFolders) + id[2]

RECURSIVE Ordered(_)
Ordered(coll) ==
  IF DOMAIN coll = {} THEN <<>>
  ELSE LET m == CHOOSE x \in DOMAIN coll : \A y \in DOMAIN coll : Rank(x) <= Rank(y)
       IN <<coll[m]>> \o Ordered([k \in DOMAIN coll \ {m} |-> coll[k]])

\* lines 75-80: every test of the list, each followed by its descendants
RECURSIVE addTests(_, _, _)
addTests(queue, tests, h) ==
  IF tests = <<>> THEN queue
  ELSE addTests(addTests(Append(queue, Head(tests)), Ordered(h[Head(tests)].children), h),
                Tail(tests), h)

\* no process was run
NotRun == [error |-> FALSE, code |-> NoExitCode]

NoRun == [pc |-> "idle", queue |-> <<>>, pos |-> 1, calls |-> <<>>, kind |-> <<>>,
          result |-> <<>>, output |-> <<>>, shown |-> 0]

\* run.started / run.passed / run.failed / run.errored on the test at the position
Call(r, what) == [r EXCEPT !.calls[r.pos] = Append(@, what)]

\* lines 88-96 and 114: the loop from r.pos on, up to the next `await exec` or
\* through run.end()
RECURSIVE runLoop(_, _)
runLoop(r, h) ==
  IF r.pos > Len(r.queue) THEN [r EXCEPT !.pc = "ended"]
  ELSE LET test == r.queue[r.pos]
           r1 == Call(r, "started")
       IN IF Cardinality(DOMAIN h[test].children) > 0
          THEN runLoop([Call([r1 EXCEPT !.kind[r.pos] = "container"], "passed")
                          EXCEPT !.pos = @ + 1], h)
          ELSE IF h[test].uri = NoUri
          THEN \* line 99 reads test.uri.fsPath of an item without uri: a TypeError,
               \* caught at line 102, where e.error.code of line 105 throws again
               [r1 EXCEPT !.kind[r.pos] = "leaf", !.pc = "threw"]
          ELSE [r1 EXCEPT !.kind[r.pos] = "leaf", !.pc = "awaitExec"]

\* lines 82-99: the handler is invoked on the whole tree (request.include is
\* undefined) or on one item of it
testRunHandler ==
  /\ run.pc = "idle"
  /\ \E include \in {<<>>} \cup {<<i>> : i \in Range(heap[Root].children) \cup
                                            Kids(heap, Range(heap[Root].children))} :
       LET queue == addTests(<<>>, IF include = <<>> THEN Ordered(heap[Root].children)
                                   ELSE include, heap)
       IN run' = runLoop([NoRun EXCEPT !.queue = queue,
                                       !.calls = [i \in DOMAIN queue |-> <<>>],
                                       !.kind = [i \in DOMAIN queue |-> "none"],
                                       !.result = [i \in DOMAIN queue |-> NotRun]], heap)
  /\ UNCHANGED <<rebuildVars, meson, dbg, derive, tsk, disk>>

\* lines 99-112: `await exec` settles for the test at the position
execSettled ==
  /\ run.pc = "awaitExec"
  /\ \E res \in ExecResults :
       IF ~res.error
       THEN \* lines 100-101
            run' = runLoop([Call([run EXCEPT !.result[run.pos] = res], "passed")
                              EXCEPT !.pos = @ + 1], heap)
       ELSE \* lines 103-110
            LET r1 == [run EXCEPT !.result[run.pos] = res,
                                  !.output = Append(@, run.pos)]
                r2 == IF res.code = BuildFailed
                      THEN Call([r1 EXCEPT !.shown = @ + 1], "errored")
                      ELSE Call(r1, "failed")
            IN run' = runLoop([r2 EXCEPT !.pos = @ + 1], heap)
  /\ UNCHANGED <<rebuildVars, meson, dbg, derive, tsk, disk>>

\* ---------------------------------------------------------- testDebugHandler
NumTargets == 2
TargetIds == 1..NumTargets
DebugFolders == 1..2
null == "null"
Falsy == {null, ""}
NoEnv == [k \in {} |-> ""]

\* path.resolve(wsFolder.uri.fsPath, extensionConfiguration("buildFolder"))
buildDirOf(f) == IF f = 1 THEN "/ws1/builddir" ELSE "/ws2/builddir"

\* target.name, which is not target.id
targetName(id) == <<"name", id>>

\* getMesonTargets(buildDir) resolved: the targets of the build directory
mesonTargets(f) == [i \in TargetIds |-> [id |-> i, name |-> targetName(i)]]

\* one entry of getMesonTests(buildDir): name, cmd, env, workdir and depends
testDescr(t) ==
  [name |-> t,
   cmd |-> IF t = 1 THEN <<"env", "--", "/bin/prog", "--flag">> ELSE <<"/bin/other">>,
   env |-> IF t = 1 THEN [X |-> "1"] ELSE NoEnv,
   workdir |-> IF t = 1 THEN null ELSE "/work",
   depends |-> SortedSeq(meson.depends[t])]

\* getMesonTests(buildDir) resolved: the tests of the build directory
mesonTests(f) == [i \in TestNames |-> testDescr(i)]

\* line 124
relevantTests(queue, tests, h) ==
  SelectSeq(tests, LAMBDA test : \E i \in DOMAIN queue : h[queue[i]].id = TestId(test.name))

\* line 125
requiredTargets(targets, relevant) ==
  SelectSeq(targets, LAMBDA target :
    \E i \in DOMAIN relevant : \E j \in DOMAIN relevant[i].depends :
      relevant[i].depends[j] = target.id)

\* lines 131-134
compileArgs(buildDir, required) ==
  <<"compile", "-C", buildDir>> \o [i \in DOMAIN required |-> required[i].name]

\* lines 145-155
debugConfiguration(test, buildDir) ==
  [name |-> <<"meson-debug-", test.name>>,
   type |-> "cppdbg",
   request |-> "launch",
   cwd |-> IF test.workdir \in Falsy THEN buildDir ELSE test.workdir,
   env |-> test.env,
   program |-> test.cmd[1],
   args |-> Tail(test.cmd)]

\* {...b, ...a}: the merge the other way round (the properties must tell it apart)
SpreadUnder(a, b) == [k \in DOMAIN a \cup DOMAIN b |-> IF k \in DOMAIN a THEN a[k] ELSE b[k]]

\* {...a, ...b}
Spread(a, b) == [k \in DOMAIN a \cup DOMAIN b |-> IF k \in DOMAIN b THEN b[k] ELSE a[k]]

\* lines 143-158: one launch configuration per relevant test
launchConfigs(relevant, f, options) ==
  [i \in DOMAIN relevant |->
     [folder |-> f, test |-> relevant[i].name,
      config |-> Spread(debugConfiguration(relevant[i], buildDirOf(f)), options)]]

NoMeson == [depends |-> <<>>, debugOptions |-> NoEnv]

NoDbg == [pc |-> "idle", queue |-> <<>>, ws |-> <<>>, idx |-> 1, relevant |-> <<>>,
          configs |-> <<>>, pos |-> 1, launched |-> <<>>, builds |-> <<>>,
          shown |-> {}, built |-> {}]

\* lines 174-178: the launches from d.pos on, up to the next `await startDebugging`
\* or through run.end()
launchLoop(d) ==
  IF d.pos > Len(d.configs) THEN [d EXCEPT !.pc = "ended"]
  ELSE [d EXCEPT !.pc = "awaitDebugging"]

\* lines 168-172 from d.idx on: up to the `await getMesonTests` of line 119 for the
\* next folder with a queued test, else on to the launches
RECURSIVE debugLoop(_, _)
debugLoop(d, h) ==
  IF d.idx > Len(d.ws) THEN launchLoop(d)
  ELSE IF \E i \in DOMAIN d.queue : h[d.queue[i]].uri = d.ws[d.idx]
       THEN [d EXCEPT !.pc = "awaitTests"]
       ELSE debugLoop([d EXCEPT !.idx = @ + 1], h)

\* request.include: an array of items of the tree
RECURSIVE ItemSeq(_)
ItemSeq(S) ==
  IF S = {} THEN <<>>
  ELSE LET m == CHOOSE x \in S : \A y \in S :
                  x[2] * (NumTests + 1) + x[3] <= y[2] * (NumTests + 1) + y[3]
       IN <<m>> \o ItemSeq(S \ {m})

\* lines 161-172: the handler is invoked on the whole tree (request.include is
\* undefined) or on some items of it
testDebugHandler ==
  /\ dbg.pc = "idle"
  /\ \E include \in SUBSET (Range(heap[Root].children) \cup
                            Kids(heap, Range(heap[Root].children))) :
       LET queue == addTests(<<>>, IF include = {} THEN Ordered(heap[Root].children)
                                   ELSE ItemSeq(include), heap)
       IN dbg' = debugLoop([NoDbg EXCEPT !.queue = queue, !.ws = workspaceFolders], heap)
  /\ UNCHANGED <<rebuildVars, run, meson, derive, tsk, disk>>

\* line 119: `await getMesonTests` settles
debugTestsSettled ==
  /\ dbg.pc = "awaitTests"
  /\ \/ dbg' = [dbg EXCEPT !.pc = "awaitTargets",
                           !.relevant = relevantTests(dbg.queue, mesonTests(dbg.ws[dbg.idx]), heap)]
     \/ \* rejected: nothing catches it, the handler's promise rejects
        dbg' = [dbg EXCEPT !.pc = "threw"]
  /\ UNCHANGED <<rebuildVars, run, meson, derive, tsk, disk>>

\* lines 120-137: `await getMesonTargets` settles
debugTargetsSettled ==
  /\ dbg.pc = "awaitTargets"
  /\ \/ LET f == dbg.ws[dbg.idx]
            required == requiredTargets(mesonTargets(f), dbg.relevant)
        IN IF Len(required) = 0
           THEN \* lines 127-129: return [], and the loop of line 168 goes on
                dbg' = debugLoop([dbg EXCEPT !.idx = @ + 1, !.relevant = <<>>], heap)
           ELSE dbg' = [dbg EXCEPT !.pc = "awaitBuild",
                          !.builds = Append(@, [folder |-> f,
                                                args |-> compileArgs(buildDirOf(f), required)])]
     \/ dbg' = [dbg EXCEPT !.pc = "threw"]
  /\ UNCHANGED <<rebuildVars, run, meson, derive, tsk, disk>>

\* lines 136-158 and 170: `await exec` of the build settles
debugBuildSettled ==
  /\ dbg.pc = "awaitBuild"
  /\ LET f == dbg.ws[dbg.idx]
     IN \/ dbg' = debugLoop([dbg EXCEPT
                    !.configs = @ \o launchConfigs(dbg.relevant, f, meson.debugOptions),
                    !.built = @ \cup {f}, !.idx = @ + 1, !.relevant = <<>>], heap)
        \/ \* lines 138-141
           dbg' = debugLoop([dbg EXCEPT !.shown = @ \cup {f}, !.idx = @ + 1,
                                        !.relevant = <<>>], heap)
  /\ UNCHANGED <<rebuildVars, run, meson, derive, tsk, disk>>

\* line 175: `await vscode.debug.startDebugging` settles
startDebuggingSettled ==
  /\ dbg.pc = "awaitDebugging"
  /\ dbg' = launchLoop([dbg EXCEPT !.launched = Append(@, dbg.configs[dbg.pos]),
                                   !.pos = @ + 1])
  /\ UNCHANGED <<rebuildVars, run, meson, derive, tsk, disk>>

\* ------------------------------------------------- getMesonTasks and getTask
NumTaskFolders == 2
NumBenchmarks == 1
TaskFolders == 1..NumTaskFolders
Modes == {"build", "run", "test", "benchmark", "clean", "reconfigure"}

\* a definition without target or filename, a name that was not given
NoTarget == <<"undefined">>
\* the empty string given as name
EmptyName == <<"">>

\* what getMesonTargetsFromFolder can yield: an executable with one output file,
\* an executable with two, and a library
TaskTargets ==
  <<[name |-> 1, type |-> "executable", filename |-> <<"f1">>],
    [name |-> 2, type |-> "executable", filename |-> <<"f1", "f2">>],
    [name |-> 3, type |-> "shared library", filename |-> <<"f1">>]>>

\* getTargetName(t): the name meson is called with, which is not t.name
getTargetName(t) == <<"meson-out", t.name>>

\* new vscode.Task(definition, workspace, ...)
Task(mode, target, filename, f) ==
  [mode |-> mode, target |-> target, filename |-> filename, folder |-> f]

\* part_001 lines 25-73
defaultTasks(f) ==
  <<Task("build", NoTarget, NoTarget, f), Task("test", NoTarget, NoTarget, f),
    Task("benchmark", NoTarget, NoTarget, f), Task("reconfigure", NoTarget, NoTarget, f),
    Task("clean", NoTarget, NoTarget, f)>>

\* part_001 lines 76-127: the tasks of one target
targetTasks(t, f) ==
  LET buildTask == Task("build", getTargetName(t), NoTarget, f)
  IN IF t.type = "executable"
     THEN IF Len(t.filename) = 1
          THEN <<buildTask, Task("run", getTargetName(t), NoTarget, f)>>
          ELSE <<buildTask>> \o
               [i \in DOMAIN t.filename |->
                  Task("run", getTargetName(t), <<"file", t.filename[i]>>, f)]
     ELSE <<buildTask>>

\* Array.prototype.flat(1) of the per-target results
RECURSIVE flatTargetTasks(_, _)
flatTargetTasks(targets, f) ==
  IF targets = <<>> THEN <<>>
  ELSE targetTasks(Head(targets), f) \o flatTargetTasks(Tail(targets), f)

\* part_001 lines 25-158: the tasks of one build directory
synthesize(data, f) ==
  defaultTasks(f)
  \o flatTargetTasks(data.targets, f)
  \o [i \in DOMAIN data.tests |-> Task("test", TestId(data.tests[i]), NoTarget, f)]
  \o [i \in DOMAIN data.benchmarks |->
        Task("benchmark", <<"benchmark", data.benchmarks[i]>>, NoTarget, f)]

\* what the three introspection calls of lines 20-24 can resolve with
Introspected ==
  [targets : {SubSeq(TaskTargets, 1, n) : n \in 0..Len(TaskTargets)},
   tests : {SortedSeq(1..n) : n \in 0..NumTests},
   benchmarks : {SortedSeq(1..n) : n \in 0..NumBenchmarks}]

NoData == [targets |-> <<>>, tests |-> <<>>, benchmarks |-> <<>>]
NoLookup == [done |-> FALSE]

NoTsk == [pc |-> "idle", ws |-> <<>>, idx |-> 1, data |-> NoData, tasks |-> <<>>,
          skipped |-> {}, failed |-> {}, shown |-> <<>>, fetched |-> <<>>,
          result |-> <<>>, lookup |-> NoLookup]

\* part_001 line 180: [].concat(...tasks)
RECURSIVE concat(_)
concat(lists) == IF lists = <<>> THEN <<>> ELSE Head(lists) \o concat(Tail(lists))

\* part_001 lines 173-180 from folder i on: the folders before stop have no build
\* directory (existsSync is false) and are passed over; at stop the loop is
\* suspended in getMesonTasksForDir, or it is over and the tasks are returned
taskLoop(t, i, stop) ==
  LET t1 == [t EXCEPT !.skipped = @ \cup {t.ws[j] : j \in i..(stop - 1)},
                      !.idx = stop, !.data = NoData]
  IN IF stop > Len(t.ws)
     THEN [t1 EXCEPT !.pc = "returned", !.result = concat(t.tasks)]
     ELSE [t1 EXCEPT !.pc = "awaitIntrospection"]

\* the catch block that says nothing (the properties must tell it apart)
caughtSilently(t, f) ==
  [t EXCEPT !.failed = @ \cup {f}, !.tasks = Append(@, <<>>)]

\* part_001 lines 159-166 and 176: the catch block of getMesonTasksForDir
caught(t, f) ==
  [t EXCEPT !.failed = @ \cup {f}, !.shown = Append(@, f), !.tasks = Append(@, <<>>)]

\* part_001 lines 170-176
getMesonTasks ==
  /\ tsk.pc = "idle"
  /\ \E stop \in 1..(Len(workspaceFolders) + 1) :
       tsk' = taskLoop([NoTsk EXCEPT !.ws = workspaceFolders], 1, stop)
  /\ UNCHANGED <<rebuildVars, run, meson, dbg, derive, disk>>

\* part_001 lines 20-24: the Promise.all of the three introspection calls settles
tasksIntrospected ==
  /\ tsk.pc = "awaitIntrospection"
  /\ \/ \E data \in Introspected :
          tsk' = [tsk EXCEPT !.pc = "awaitNames", !.data = data]
     \/ \E stop \in (tsk.idx + 1)..(Len(tsk.ws) + 1) :
          tsk' = taskLoop(caught(tsk, tsk.ws[tsk.idx]), tsk.idx + 1, stop)
  /\ UNCHANGED <<rebuildVars, run, meson, dbg, derive, disk>>

\* part_001 lines 75-158: the Promise.all of the getTargetName calls settles
targetNamesSettled ==
  /\ tsk.pc = "awaitNames"
  /\ \E stop \in (tsk.idx + 1)..(Len(tsk.ws) + 1) :
       LET f == tsk.ws[tsk.idx]
       IN \/ tsk' = taskLoop([tsk EXCEPT
                       !.tasks = Append(@, synthesize(tsk.data, f)),
                       !.fetched = Append(@, [folder |-> f, data |-> tsk.data])],
                     tsk.idx + 1, stop)
          \/ /\ tsk.data.targets # <<>>
             /\ tsk' = taskLoop(caught(tsk, f), tsk.idx + 1, stop)
  /\ UNCHANGED <<rebuildVars, run, meson, dbg, derive, disk>>

\* part_001 line 186: !name
Absent(name) == name \in {NoTarget, EmptyName}

\* part_001 lines 185-187
filtered(tasks, mode, name) ==
  SelectSeq(tasks, LAMBDA t : t.mode = mode /\ (Absent(name) \/ t.target = name))

\* what a caller can ask for
LookupNames ==
  {NoTarget, EmptyName} \cup {getTargetName(TaskTargets[i]) : i \in DOMAIN TaskTargets}
  \cup {TestId(t) : t \in TestNames}

\* part_001 lines 183-191, on the tasks getMesonTasks returned
getTask ==
  /\ tsk.pc = "returned"
  /\ ~tsk.lookup.done
  /\ \E mode \in Modes, name \in LookupNames :
       LET found == filtered(tsk.result, mode, name)
       IN tsk' = [tsk EXCEPT !.lookup =
            IF Len(found) = 0
            THEN [done |-> TRUE, mode |-> mode, name |-> name, thrown |-> TRUE,
                  error |-> <<"Cannot find", mode, "target", name>>]
            ELSE [done |-> TRUE, mode |-> mode, name |-> name, thrown |-> FALSE,
                  task |-> found[1]]]
  /\ UNCHANGED <<rebuildVars, run, meson, dbg, derive, disk>>

Controller == [id |-> <<"controller", 0>>, uri |-> NoUri, children |-> <<>>]

NoPass ==
  /\ workspaceChanges = 0
  /\ pc = [p \in Passes |-> "idle"]
  /\ single = [p \in Passes |-> FALSE]
  /\ wsLoop = [p \in Passes |-> <<>>]
  /\ idx = [p \in Passes |-> 1]
  /\ item = [p \in Passes |-> Undefined]
  /\ log = [p \in Passes |-> NoLog]
  /\ event = NoEvent

InitRebuild ==
  /\ platform \in Platforms
  /\ workspaceFolders \in {SortedSeq(S) : S \in SUBSET Folders \ {{}}}
  /\ heap = [k \in {Root} |-> Controller]
  /\ NoPass

Idle ==
  run = NoRun /\ meson = NoMeson /\ dbg = NoDbg /\ derive = <<>> /\ tsk = NoTsk /\ disk = NoDisk

Init == InitRebuild /\ Idle

Next ==
  \/ \E p \in Passes : rebuildTests(p)
  \/ \E p \in Passes : projectInfoSettled(p)
  \/ \E p \in Passes : mesonTestsSettled(p)
  \/ changeWorkspaceFolders

vars == <<rebuildVars, run, meson, dbg, derive, tsk, disk>>

Spec == Init /\ [][Next]_vars

\* The run handler beside the reconciler: VS Code may invoke it at any await of a pass
RunFolders == 1..2

InitRun ==
  /\ InitRebuild
  /\ Range(workspaceFolders) \subseteq RunFolders
  /\ Idle

NextRun ==
  \/ \E p \in Passes : rebuildTests(p)
  \/ \E p \in Passes : projectInfoSettled(p)
  \/ \E p \in Passes : mesonTestsSettled(p)
  \/ testRunHandler
  \/ execSettled

SpecRun == InitRun /\ [][NextRun]_vars

\* Calls of rebuildTests that overlap, over build directories that change
InitOverlap ==
  /\ InitRebuild
  /\ Range(workspaceFolders) \subseteq RunFolders
  /\ run = NoRun /\ meson = NoMeson /\ dbg = NoDbg /\ derive = <<>> /\ tsk = NoTsk
  /\ disk \in [tests : [RunFolders -> SUBSET TestNames], changes : {0}, reads : {0},
               seen : {[p \in Passes |-> NotRead]},
               results : {[f \in RunFolders |-> NotRead]}]

NextOverlap ==
  \/ \E p \in Passes : rebuildTestsOverlapping(p)
  \/ \E p \in Passes : projectInfoSettledOverlapping(p)
  \/ \E p \in Passes : mesonTestsSettledOverlapping(p)
  \/ buildDirectoryChanges

SpecOverlap == InitOverlap /\ [][NextOverlap]_vars

\* The debug handler on a tree that a pass of rebuildTests left behind: every
\* introspection of the pass resolved, with the tests the build directories hold
RECURSIVE settledFolders(_, _, _)
settledFolders(h, ws, i) ==
  IF i > Len(ws) THEN h
  ELSE LET inst == NewItem(1, ws[i], 0)
           h1 == createTestItem(h, inst, uriPath(ws[i]), NoUri)
           h2 == [h1 EXCEPT ![Root].children = Add(@, uriPath(ws[i]), inst)]
       IN settledFolders(rebuildTestsForFolder(h2, inst, SortedSeq(TestNames), ws[i], 1),
                         ws, i + 1)

settledTree(ws) ==
  IF Len(ws) = 1
  THEN rebuildTestsForFolder([k \in {Root} |-> Controller], Root, SortedSeq(TestNames),
                             ws[1], 1)
  ELSE settledFolders([k \in {Root} |-> Controller], ws, 1)

\* extensionConfiguration("debugOptions")
DebugOptions ==
  {NoEnv, [MIMode |-> "gdb"], [program |-> "/usr/bin/gdbserver"],
   [cwd |-> "/tmp", MIMode |-> "lldb"]}

InitDebug ==
  /\ platform \in Platforms
  /\ workspaceFolders \in {SortedSeq(S) : S \in SUBSET DebugFolders \ {{}}}
  /\ heap = settledTree(workspaceFolders)
  /\ NoPass
  /\ meson \in [depends : [TestNames -> SUBSET TargetIds], debugOptions : DebugOptions]
  /\ run = NoRun /\ dbg = NoDbg /\ derive = <<>> /\ tsk = NoTsk /\ disk = NoDisk

NextDebug ==
  \/ testDebugHandler
  \/ debugTestsSettled
  \/ debugTargetsSettled
  \/ debugBuildSettled
  \/ startDebuggingSettled

SpecDebug == InitDebug /\ [][NextDebug]_vars

\* The derivation of lines 143-158 on test descriptors of every shape
MaxCmdLen == 4
Tokens == {"env", "--", "/bin/prog", "--flag"}
Cmds == UNION {[1..n -> Tokens] : n \in 1..MaxCmdLen}
Envs == {NoEnv, [X |-> "1"]}
Workdirs == {null, "", "/work"}
Descriptors ==
  [name : {1}, cmd : Cmds, env : Envs, workdir : Workdirs, depends : {<<1>>}]

InitConfig ==
  /\ platform \in Platforms
  /\ workspaceFolders = <<1>>
  /\ heap = [k \in {Root} |-> Controller]
  /\ NoPass
  /\ run = NoRun /\ dbg = NoDbg /\ meson = NoMeson /\ tsk = NoTsk /\ disk = NoDisk
  /\ derive \in [test : Descriptors, folder : DebugFolders, options : DebugOptions,
                  configs : {<<>>}]

\* lines 143-158 for the descriptor
deriveConfigs ==
  /\ derive.configs = <<>>
  /\ derive' = [derive EXCEPT
                  !.configs = launchConfigs(<<derive.test>>, derive.folder, derive.options)]
  /\ UNCHANGED <<rebuildVars, run, meson, dbg, tsk, disk>>

NextConfig == deriveConfigs

SpecConfig == InitConfig /\ [][NextConfig]_vars

\* The task provider and the lookup
InitTask ==
  /\ platform \in Platforms
  /\ workspaceFolders \in {SortedSeq(S) : S \in SUBSET TaskFolders \ {{}}}
  /\ heap = [k \in {Root} |-> Controller]
  /\ NoPass
  /\ Idle

NextTask ==
  \/ getMesonTasks
  \/ tasksIntrospected
  \/ targetNamesSettled

SpecTask == InitTask /\ [][NextTask]_vars

\* The lookup on the tasks the provider returned
NextLookup ==
  \/ getMesonTasks
  \/ tasksIntrospected
  \/ targetNamesSettled
  \/ getTask

SpecLookup == InitTask /\ [][NextLookup]_vars

\* ------------------------------------------------------------------- properties
TestIds(T) == {TestId(t) : t \in T}

\* C1: once rebuildTestsForFolder has completed for a fresh test list T, the ids
\* of the nodes in the collection it was given are exactly the test names of T,
\* whatever the collection held before.
C1_ReconcileConverges ==
  \A j \in DOMAIN event.reconciled :
    Ids(heap, event.reconciled[j].coll) = TestIds(event.reconciled[j].tests)

\* C1 witness: a reconciliation that had to remove a stale node and to add a new one
C1_Witness ==
  \E j \in DOMAIN event.reconciled :
    LET r == event.reconciled[j]
    IN /\ DOMAIN r.before \ TestIds(r.tests) # {}
       /\ TestIds(r.tests) \ DOMAIN r.before # {}
       /\ Ids(heap, r.coll) = TestIds(r.tests)

\* C2: a reconciliation issues no add and no remove for a test name that was in the
\* collection before and is in the fresh list, and the node of that name is the
\* same object afterwards (so a second pass over an unchanged list issues none).
C2_MatchedNodesUntouched ==
  \A j \in DOMAIN event.reconciled :
    LET r == event.reconciled[j]
    IN \A id \in DOMAIN r.before \cap TestIds(r.tests) :
         /\ id \notin r.adds
         /\ id \notin r.removes
         /\ heap[r.coll].children[id] = r.before[id]

\* C3: when a pass over two or more folders has completed, no top-level node is
\* without children, every top-level node is the node of an open workspace folder,
\* and no node is left for a folder whose build directory the pass found missing.
C3_MultiFolderPruning ==
  (event.ended /\ ~event.single) =>
    LET top == heap[Root].children
    IN /\ \A k \in DOMAIN top :
            /\ heap[top[k]].children # <<>>
            /\ \E f \in Range(workspaceFolders) : k = uriPath(f)
       /\ \A f \in event.log.missing : uriPath(f) \notin DOMAIN top

\* C4: when a pass over several folders has completed in which introspection failed
\* for folder f, every other folder of the pass was still reconciled, and the node
\* f had before the pass is still there with the same children.
C4_FolderIsolated ==
  (event.ended /\ ~event.single) =>
    LET lg == event.log
        top == TopSnapshot(heap)
    IN \A f \in lg.failed :
         /\ \A g \in Range(workspaceFolders) \ (lg.failed \cup lg.missing) :
              \A T \in SUBSET TestNames :
                <<g, T>> \in lg.fetched =>
                  IF T = {} THEN uriPath(g) \notin DOMAIN top
                  ELSE /\ uriPath(g) \in DOMAIN top
                       /\ DOMAIN top[uriPath(g)].children = TestIds(T)
         /\ (uriPath(f) \in DOMAIN lg.startTop /\ f \in Range(workspaceFolders)) =>
              /\ uriPath(f) \in DOMAIN top
              /\ top[uriPath(f)] = lg.startTop[uriPath(f)]

\* C5: with one workspace folder or several, an introspection failure is caught
\* inside rebuildTests and shown as an error message for that folder, and no
\* promise is left rejected without a handler.
C5_FailureCaughtAndShown ==
  event.rejected =>
    /\ event.folder \in event.shown
    /\ ~event.unhandled

Outcomes == {"passed", "failed", "errored"}

\* the outcome the exit code of a test process stands for
Classified(res) ==
  IF ~res.error THEN "passed" ELSE IF res.code = 125 THEN "errored" ELSE "failed"

\* C6: testRunHandler never throws; when it is over the run was ended and every
\* queued node was marked started and then got exactly one outcome: passed without
\* a process for a node with children, and for a leaf passed on exit code 0,
\* errored on 125 and failed on any other failed invocation.
C6_ExitCodeClassification ==
  /\ run.pc # "threw"
  /\ run.pc = "ended" =>
       \A i \in DOMAIN run.queue :
         /\ \E o \in Outcomes : run.calls[i] = <<"started", o>>
         /\ run.kind[i] = "container" =>
              (run.calls[i][2] = "passed" /\ run.result[i] = NotRun)
         /\ run.kind[i] = "leaf" => run.calls[i][2] = Classified(run.result[i])

\* C7: when testRunHandler is over, the stdout of the process of every executed
\* leaf was appended to the run, whatever the outcome.
C7_StdoutAlwaysAppended ==
  run.pc = "ended" =>
    \A i \in DOMAIN run.queue :
      run.kind[i] = "leaf" => \E j \in DOMAIN run.output : run.output[j] = i

\* ------------------------------------------------------------ the debug runs
\* the tests of folder f that the request selected: the queued leaves of the folder
SelectedTests(f) ==
  {t \in TestNames : \E i \in DOMAIN dbg.queue :
     heap[dbg.queue[i]].uri = f /\ heap[dbg.queue[i]].id = TestId(t)}

\* the targets some selected test of folder f depends on
Depended(f) == UNION {meson.depends[t] : t \in SelectedTests(f)}

BuildsOf(f) == {i \in DOMAIN dbg.builds : dbg.builds[i].folder = f}

BuiltTargets(b) == {b.args[i] : i \in 4..Len(b.args)}

LaunchesOf(f, t) ==
  {i \in DOMAIN dbg.launched : dbg.launched[i].folder = f /\ dbg.launched[i].test = t}

\* C8: when a debug run has ended, every workspace folder with a selected leaf had
\* a single build of exactly the targets the selected tests of the folder depend on,
\* and where that build succeeded, one debug session was started for each selected
\* test of the folder (those without dependent targets included) and none for a test
\* that was not selected in the folder.
C8_LaunchesExactlySelected ==
  dbg.pc = "ended" =>
    \A f \in Range(dbg.ws) :
      SelectedTests(f) # {} =>
        /\ Cardinality(BuildsOf(f)) = 1
        /\ \A i \in BuildsOf(f) :
             BuiltTargets(dbg.builds[i]) = {targetName(d) : d \in Depended(f)}
        /\ f \in dbg.built =>
             \A t \in TestNames :
               Cardinality(LaunchesOf(f, t)) = IF t \in SelectedTests(f) THEN 1 ELSE 0

\* C9: once the handler has stopped, every folder whose build failed has its error
\* message and no debug session, the configurations of every folder whose build
\* succeeded were launched, and the run was ended.
C9_NoPartialLaunch ==
  (dbg.pc \in {"ended", "threw"} /\ dbg.shown # {}) =>
    /\ \A i \in DOMAIN dbg.launched : dbg.launched[i].folder \notin dbg.shown
    /\ \A i \in DOMAIN dbg.configs :
         dbg.configs[i].folder \in dbg.built => \E j \in DOMAIN dbg.launched : j = i
    /\ dbg.pc = "ended"

ExampleCmd == <<"env", "--", "/bin/prog", "--flag">>

\* the descriptor of the example, with no debug option naming one of its fields
IsExample ==
  /\ derive.configs # <<>>
  /\ derive.test.cmd = ExampleCmd
  /\ derive.test.env = [X |-> "1"]
  /\ derive.test.workdir = null
  /\ DOMAIN derive.options \cap {"program", "args", "cwd", "env"} = {}

\* every key of debugOptions overrides the synthesized field of the same name
OptionsOverride ==
  derive.configs # <<>> =>
    \A k \in DOMAIN derive.options : derive.configs[1].config[k] = derive.options[k]

\* C10 as stated: the example descriptor yields program "/bin/prog" and args
\* ["--flag"], cwd the build directory and env {X: "1"}; and every key of
\* debugOptions overrides the synthesized field.
C10_ExampleAsStated ==
  /\ IsExample =>
       LET c == derive.configs[1].config
       IN /\ c.program = "/bin/prog"
          /\ c.args = <<"--flag">>
          /\ c.cwd = buildDirOf(derive.folder)
          /\ c.env = [X |-> "1"]
  /\ OptionsOverride

\* C10 amended: program is the first token of cmd and args are the remaining
\* tokens, so the example descriptor yields program "env" and args
\* ["--", "/bin/prog", "--flag"], cwd the build directory and env {X: "1"}; for any
\* descriptor a field no debug option names is program = cmd[0], args = the rest,
\* cwd = workdir or else the build directory, env = the test's env; and every key
\* of debugOptions overrides the synthesized field.
C10_DerivationFirstToken ==
  /\ IsExample =>
       LET c == derive.configs[1].config
       IN /\ c.program = "env"
          /\ c.args = <<"--", "/bin/prog", "--flag">>
          /\ c.cwd = buildDirOf(derive.folder)
          /\ c.env = [X |-> "1"]
  /\ derive.configs # <<>> =>
       LET c == derive.configs[1].config
           t == derive.test
           o == DOMAIN derive.options
       IN /\ Len(derive.configs) = 1
          /\ "program" \notin o => c.program = t.cmd[1]
          /\ "args" \notin o =>
               /\ Len(c.args) = Len(t.cmd) - 1
               /\ \A i \in 1..Len(c.args) : c.args[i] = t.cmd[i + 1]
          /\ "cwd" \notin o =>
               c.cwd = IF t.workdir \in {null, ""} THEN buildDirOf(derive.folder)
                       ELSE t.workdir
          /\ "env" \notin o => c.env = t.env
  /\ OptionsOverride

C10_Witness ==
  /\ IsExample
  /\ derive.options = [MIMode |-> "gdb"]
  /\ derive.configs[1].config.program = "env"
  /\ derive.configs[1].config.MIMode = "gdb"

\* ------------------------------------------------------------------ the tasks
\* the target a lookup asks for: none when no name is given
Wanted(name) == IF Absent(name) THEN NoTarget ELSE name

\* the positions of the registered tasks with the requested mode and target
Matching(l) ==
  {i \in DOMAIN tsk.result :
     tsk.result[i].mode = l.mode /\ tsk.result[i].target = Wanted(l.name)}

\* C11: getTask(mode, name) fails exactly when no registered task has the requested
\* mode and the requested target (no target when no name is given), the error then
\* carries the mode and the name, and otherwise it returns the first such task.
C11_LookupBySemanticIdentity ==
  tsk.lookup.done =>
    LET l == tsk.lookup
    IN /\ l.thrown <=> Matching(l) = {}
       /\ l.thrown => (l.error[2] = l.mode /\ l.error[4] = l.name)
       /\ ~l.thrown =>
            \E i \in Matching(l) :
              /\ l.task = tsk.result[i]
              /\ \A j \in Matching(l) : i <= j

\* what the introspection of folder f resolved with in this aggregation
FetchedData(f) ==
  LET i == CHOOSE i \in DOMAIN tsk.fetched : tsk.fetched[i].folder = f
  IN tsk.fetched[i].data

\* the task lists of the folders of ws with a build directory, one after the other
RECURSIVE ExpectedTasks(_)
ExpectedTasks(ws) ==
  IF ws = <<>> THEN <<>>
  ELSE (IF Head(ws) \in tsk.skipped \cup tsk.failed THEN <<>>
        ELSE synthesize(FetchedData(Head(ws)), Head(ws)))
       \o ExpectedTasks(Tail(ws))

\* C12: when getMesonTasks has returned, its result is the concatenation, in
\* workspace-folder order, of the task lists of the folders whose build directory
\* exists and whose introspection resolved; a folder without build directory
\* contributed nothing and got no error message; a folder whose introspection
\* failed contributed nothing and got exactly one error message.
C12_AggregationFolderIsolated ==
  tsk.pc = "returned" =>
    /\ \A f \in Range(tsk.ws) :
         \/ f \in tsk.skipped
         \/ f \in tsk.failed
         \/ \E i \in DOMAIN tsk.fetched : tsk.fetched[i].folder = f
    /\ tsk.result = ExpectedTasks(tsk.ws)
    /\ \A f \in tsk.skipped : ~ \E i \in DOMAIN tsk.shown : tsk.shown[i] = f
    /\ \A f \in tsk.failed :
         Cardinality({i \in DOMAIN tsk.shown : tsk.shown[i] = f}) = 1

\* C12 witness: the introspection of one folder failed and the tasks of another
\* folder, targets included, were returned all the same
C12_Witness ==
  /\ tsk.pc = "returned"
  /\ tsk.failed # {}
  /\ \E i \in DOMAIN tsk.fetched :
       /\ tsk.fetched[i].data.targets # <<>>
       /\ \E j \in DOMAIN tsk.result : tsk.result[j].folder = tsk.fetched[i].folder
  /\ Len(tsk.result) > 5

\* ----------------------------------------------------- overlapping passes
\* the node a suspended pass looked up or added at lines 50-53, and will reconcile
\* once its introspection settles, is still the node of its id in the tree
NoLostUpdate ==
  \A p \in Passes :
    (pc[p] = "awaitTests" /\ ~single[p]) =>
      Get(heap[Root].children, heap[item[p]].id) = item[p]

\* with one workspace folder: the leaves are the tests of the introspection result
\* that was read last
LeavesAreLatestResult ==
  Len(workspaceFolders) = 1 =>
    LET latest == disk.results[workspaceFolders[1]]
    IN latest.at > 0 => Ids(heap, Root) = TestIds(latest.tests)

\* C13: when calls of rebuildTests overlap, no call reconciles a node that another
\* call has meanwhile taken out of the tree or replaced, and once all calls have
\* finished the leaf ids are the test names of the most recent introspection result.
C13_OverlapRaceFree ==
  /\ NoLostUpdate
  /\ (\A p \in Passes : pc[p] = "done") => LeavesAreLatestResult
====
